---- MODULE Spec2Model ----
\* One run of scripts/update_project_status.py: main() and the functions it
\* calls, with GitHub's replies as the nondeterministic environment.
\*
\* Line 174 of the script builds url_template with an f-string whose last
\* replacement field is empty; the model reads lines 174-177 as what they
\* spell out, one GET of .../issues/<number> per number.
EXTENDS Integers, Sequences, FiniteSets, TLC

VARIABLES
    pc,                  \* where main() stands
    argv,                \* the command line
    token,               \* os.environ.get("GITHUB_TOKEN")
    args,                \* args.issues
    project_id,
    status_field_id,
    status_done_option,
    remoteProject,       \* remote: what user.projectV2(number: 2) holds, null when there is none
    listing,             \* the page _closed_codex_done_issues received, before its filter
    selected,
    issues,
    idx,                 \* position of the for loop of line 184 in `issues`
    items,               \* _issue_project_item_id's `items`, in the state after the call
    item_id,
    requests,            \* every request sent, in order
    stdout,
    stderr,
    exitCode,            \* -1 while the process runs
    board                \* remote: the project items whose Status is Done

vars == <<pc, argv, token, args, project_id, status_field_id, status_done_option,
          remoteProject, listing, selected, issues, idx, items, item_id,
          requests, stdout, stderr, exitCode, board>>

\* ---------------------------------------------------------------- bounds
MaxArgs == 3
MaxIssues == 2
MaxItems == 2
MaxFields == 2
MaxOptions == 2

\* ------------------------------------------------------------- constants
PROJECT_NUMBER == 2
STATUS_FIELD_NAME == "Status"
STATUS_DONE_VALUE == "Done"

None == "None"
IssueNumbers == {3, 5}
FieldNames == {STATUS_FIELD_NAME, "Priority"}
OptionNames == {STATUS_DONE_VALUE, "Todo"}
TargetProject == "P_1"
ProjectIds == {TargetProject, "P_2"}

NodeId(n) == "I_" \o ToString(n)
FieldId(i) == "F_" \o ToString(i)
OptionId(i, j) == "O_" \o ToString(i) \o "_" \o ToString(j)
ItemId(k) == "PVTI_" \o ToString(k)

\* `not x` of Python, for the values an identifier takes here
Falsy(x) == x \in {None, ""}

SeqsUpTo(S, n) == UNION {[1..k -> S] : k \in 0..n}

\* ------------------------------------------------------------ environment
Argvs ==
    {[kind |-> "ints", issues |-> s] : s \in SeqsUpTo(IssueNumbers, MaxArgs)}
        \cup {[kind |-> "help", issues |-> <<>>], [kind |-> "bad", issues |-> <<>>]}

Tokens == {None, "", "ghp_token"}

\* A node of fields.nodes: {} for a field that is no single-select field.
EmptyNode == [name |-> None, id |-> None, options |-> <<>>]

FieldNode(i, name, optionNames) ==
    [name |-> name, id |-> FieldId(i),
     options |-> [j \in 1..Len(optionNames) |->
                     [name |-> optionNames[j], id |-> OptionId(i, j)]]]

FieldShapes ==
    {[name |-> None, options |-> <<>>]}
        \cup {[name |-> n, options |-> o] :
                 n \in FieldNames, o \in SeqsUpTo(OptionNames, MaxOptions)}

FieldNodes(shapes) ==
    [i \in 1..Len(shapes) |->
        IF shapes[i].name = None THEN EmptyNode
        ELSE FieldNode(i, shapes[i].name, shapes[i].options)]

NullProject == [present |-> FALSE, id |-> None, fields |-> <<>>]

MetaResponses ==
    {NullProject}
        \cup {[present |-> TRUE, id |-> TargetProject, fields |-> FieldNodes(s)] :
                 s \in SeqsUpTo(FieldShapes, MaxFields)}

\* The usual board, one without a Status field, one whose Status has no Done
\* option, and no board at all.
Board == [present |-> TRUE, id |-> TargetProject,
          fields |-> <<EmptyNode, FieldNode(2, STATUS_FIELD_NAME, <<"Todo", STATUS_DONE_VALUE>>)>>]
BoardWithoutStatus ==
    [present |-> TRUE, id |-> TargetProject,
     fields |-> <<FieldNode(1, "Priority", <<STATUS_DONE_VALUE>>)>>]
BoardWithoutDone ==
    [present |-> TRUE, id |-> TargetProject,
     fields |-> <<FieldNode(1, STATUS_FIELD_NAME, <<"Todo">>)>>]
RunProjects == {Board, BoardWithoutStatus, BoardWithoutDone, NullProject}

IssueRecord(n, hasNode, isPR) ==
    [number |-> n, node_id |-> IF hasNode THEN NodeId(n) ELSE None, pull_request |-> isPR]

\* One page of the closed, labelled issues, newest first: the entry at position
\* k is issue 10 - k, with or without node_id, with or without pull_request.
Listings ==
    {[k \in 1..Len(s) |-> IssueRecord(10 - k, s[k].hasNode, s[k].isPR)] :
        s \in SeqsUpTo([hasNode : BOOLEAN, isPR : BOOLEAN], MaxIssues)}

ItemShapes == [hasId : BOOLEAN, project : ProjectIds \cup {None}]

ItemLists ==
    {[k \in 1..Len(s) |->
         [id |-> IF s[k].hasId THEN ItemId(k) ELSE None, project |-> s[k].project]] :
        s \in SeqsUpTo(ItemShapes, MaxItems)}

\* ------------------------------------------------------------ pure parts
\* as _require_token, testing `token is None` instead
RequireToken_NoneOnly(tok) == tok # None

\* _require_token, line 34: `if not token`
RequireToken(tok) == ~Falsy(tok)

RECURSIVE SortSet(_)
SortSet(S) ==
    IF S = {} THEN <<>>
    ELSE LET m == CHOOSE x \in S : \A y \in S : x <= y
         IN <<m>> \o SortSet(S \ {m})

\* as lines 173 and 176, iterating args.issues as given
SortedNumbers_AsGiven(a) == a

\* lines 173 and 176: sorted(set(args.issues))
SortedNumbers(a) == SortSet({a[k] : k \in 1..Len(a)})

\* lines 92-94: the inner loop has no break, the last option named Done wins
RECURSIVE ScanOptions(_, _, _)
ScanOptions(options, j, acc) ==
    IF j > Len(options) THEN acc
    ELSE ScanOptions(options, j + 1,
                     IF options[j].name = STATUS_DONE_VALUE THEN options[j].id ELSE acc)

\* as lines 89-95 without the break of line 95: the last field named Status wins
RECURSIVE ScanFields_LastStatus(_, _)
ScanFields_LastStatus(nodes, k) ==
    IF k > Len(nodes) THEN [status_field_id |-> None, status_done_option |-> None]
    ELSE LET rest == ScanFields_LastStatus(nodes, k + 1)
         IN IF rest.status_field_id # None THEN rest
            ELSE IF nodes[k] # EmptyNode /\ nodes[k].name = STATUS_FIELD_NAME
                 THEN [status_field_id |-> nodes[k].id,
                       status_done_option |-> ScanOptions(nodes[k].options, 1, None)]
                 ELSE rest

\* lines 89-95: the outer loop breaks at the first field named Status
RECURSIVE ScanFields(_, _)
ScanFields(nodes, k) ==
    IF k > Len(nodes) THEN [status_field_id |-> None, status_done_option |-> None]
    ELSE IF nodes[k] # EmptyNode /\ nodes[k].name = STATUS_FIELD_NAME
         THEN [status_field_id |-> nodes[k].id,
               status_done_option |-> ScanOptions(nodes[k].options, 1, None)]
         ELSE ScanFields(nodes, k + 1)

\* as _fetch_project_metadata, with line 97 testing the field alone
FetchProjectMetadata_FieldOnly(project) ==
    IF ~project.present
    THEN [raised |-> "Project 2 for AlexanderZagaynov was not found",
          project_id |-> None, status_field_id |-> None, status_done_option |-> None]
    ELSE LET found == ScanFields(project.fields, 1)
         IN IF Falsy(found.status_field_id)
            THEN [raised |-> "Status field or Done option not found on project",
                  project_id |-> None, status_field_id |-> None,
                  status_done_option |-> None]
            ELSE [raised |-> None,
                  project_id |-> project.id,
                  status_field_id |-> found.status_field_id,
                  status_done_option |-> found.status_done_option]

\* _fetch_project_metadata from line 81 on, given the reply's projectV2
FetchProjectMetadata(project) ==
    IF ~project.present
    THEN [raised |-> "Project 2 for AlexanderZagaynov was not found",
          project_id |-> None, status_field_id |-> None, status_done_option |-> None]
    ELSE LET found == ScanFields(project.fields, 1)
         IN IF Falsy(found.status_field_id) \/ Falsy(found.status_done_option)
            THEN [raised |-> "Status field or Done option not found on project",
                  project_id |-> None, status_field_id |-> None,
                  status_done_option |-> None]
            ELSE [raised |-> None,
                  project_id |-> project.id,
                  status_field_id |-> found.status_field_id,
                  status_done_option |-> found.status_done_option]

\* as line 106 without the filter
ClosedCodexDoneIssues_Unfiltered(page) == page

\* line 106
ClosedCodexDoneIssues(page) == SelectSeq(page, LAMBDA issue : ~issue.pull_request)

\* lines 127-130
RECURSIVE ScanItems(_, _, _)
ScanItems(nodes, pid, k) ==
    IF k > Len(nodes) THEN None
    ELSE IF nodes[k].project = pid THEN nodes[k].id
         ELSE ScanItems(nodes, pid, k + 1)

\* as lines 127-130 without the test of line 128
IssueProjectItemId_FirstItem(nodes, pid) == IF nodes = <<>> THEN None ELSE nodes[1].id

IssueProjectItemId(nodes, pid) == ScanItems(nodes, pid, 1)

\* ------------------------------------------------------- requests, output
Request(op, i, n, outcome) ==
    [op |-> op, idx |-> i, num |-> n, outcome |-> outcome,
     projectId |-> None, itemId |-> None, fieldId |-> None, optionId |-> None]

Mutation(i, n, outcome) ==
    [op |-> "mutation", idx |-> i, num |-> n, outcome |-> outcome,
     projectId |-> project_id, itemId |-> item_id,
     fieldId |-> status_field_id, optionId |-> status_done_option]

Line(kind, n) == [kind |-> kind, n |-> n]

\* as if the caller caught the exception and went round again
Uncaught_Retry(req) ==
    /\ requests' = Append(requests, req)
    /\ UNCHANGED <<pc, exitCode, stderr>>

\* An exception nobody catches: traceback on stderr, exit status 1.
Uncaught(req) ==
    /\ requests' = Append(requests, req)
    /\ pc' = "exit"
    /\ exitCode' = 1
    /\ stderr' = "Traceback"

\* as lines 188-189 and 193-194, raising SystemExit(reason) instead
SkipIssue_Abort(reason) ==
    /\ stderr' = reason
    /\ exitCode' = 1
    /\ pc' = "exit"
    /\ UNCHANGED <<stdout, idx>>

\* as lines 188-189 and 193-194, without the print
SkipIssue_Silent(reason) ==
    /\ idx' = idx + 1
    /\ pc' = "loop"
    /\ UNCHANGED <<stdout, stderr, exitCode>>

\* lines 188-189 and 193-194: print the reason, `continue`
SkipIssue(reason) ==
    /\ stdout' = Append(stdout, Line(reason, issues[idx].number))
    /\ idx' = idx + 1
    /\ pc' = "loop"
    /\ UNCHANGED <<stderr, exitCode>>

\* ------------------------------------------------------------------ Init
InitWith(argvs, tokens, projects) ==
    /\ pc = "parse_args"
    /\ argv \in argvs
    /\ token \in tokens
    /\ remoteProject \in projects
    /\ args = <<>>
    /\ project_id = None
    /\ status_field_id = None
    /\ status_done_option = None
    /\ listing = <<>>
    /\ selected = <<>>
    /\ issues = <<>>
    /\ idx = 1
    /\ items = <<>>
    /\ item_id = None
    /\ requests = <<>>
    /\ stdout = <<>>
    /\ stderr = ""
    /\ exitCode = -1
    /\ board = {}

\* Any command line and token, against one of the three boards.
Init == InitWith(Argvs, Tokens, RunProjects)

\* Any board, for a command line that parses.
InitMeta ==
    InitWith({[kind |-> "ints", issues |-> <<>>], [kind |-> "ints", issues |-> <<5, 3, 5>>]},
             Tokens, MetaResponses)

\* --------------------------------------------------------------- actions
\* line 167: argparse prints the help and exits 0 on -h, exits 2 on an
\* argument that is no integer
ParseArgs ==
    /\ pc = "parse_args"
    /\ IF argv.kind = "help"
       THEN /\ pc' = "exit" /\ exitCode' = 0
            /\ stdout' = <<Line("help", 0)>>
            /\ UNCHANGED <<stderr, args>>
       ELSE IF argv.kind = "bad"
       THEN /\ pc' = "exit" /\ exitCode' = 2
            /\ stderr' = "usage"
            /\ UNCHANGED <<stdout, args>>
       ELSE /\ pc' = "require_token"
            /\ args' = argv.issues
            /\ UNCHANGED <<stdout, stderr, exitCode>>
    /\ UNCHANGED <<argv, token, project_id, status_field_id, status_done_option,
                   remoteProject, listing, selected, issues, idx, items, item_id,
                   requests, board>>

\* line 168
RequireTokenStep ==
    /\ pc = "require_token"
    /\ IF RequireToken(token)
       THEN /\ pc' = "fetch_metadata"
            /\ UNCHANGED <<stderr, exitCode>>
       ELSE /\ pc' = "exit" /\ exitCode' = 1
            /\ stderr' = "GITHUB_TOKEN is required to update project status"
    /\ UNCHANGED <<argv, token, args, project_id, status_field_id, status_done_option,
                   remoteProject, listing, selected, issues, idx, items, item_id,
                   requests, stdout, board>>

\* line 170
FetchMetadataStep ==
    /\ pc = "fetch_metadata"
    /\ \/ /\ Uncaught(Request("metadata", 0, PROJECT_NUMBER, "failed"))
          /\ UNCHANGED <<project_id, status_field_id, status_done_option>>
       \/ LET r == FetchProjectMetadata(remoteProject)
          IN /\ requests' = Append(requests, Request("metadata", 0, PROJECT_NUMBER, "ok"))
             /\ IF r.raised # None
                THEN /\ pc' = "exit" /\ exitCode' = 1 /\ stderr' = r.raised
                     /\ UNCHANGED <<project_id, status_field_id, status_done_option>>
                ELSE /\ pc' = "select"
                     /\ project_id' = r.project_id
                     /\ status_field_id' = r.status_field_id
                     /\ status_done_option' = r.status_done_option
                     /\ UNCHANGED <<stderr, exitCode>>
    /\ UNCHANGED <<argv, token, remoteProject, args, listing, selected, issues, idx, items,
                   item_id, stdout, board>>

\* lines 172-178 and 182: one turn of the loop of line 176; the last turn
\* goes on to line 182
FetchIssue ==
    /\ pc = "select"
    /\ args # <<>>
    /\ LET order == SortedNumbers(args)
           number == order[Len(selected) + 1]
       IN \/ /\ Uncaught(Request("issue", 0, number, "failed"))
             /\ UNCHANGED <<selected, issues, stdout>>
          \/ \E hasNode \in BOOLEAN, isPR \in BOOLEAN :
                LET sel == Append(selected, IssueRecord(number, hasNode, isPR))
                IN /\ requests' = Append(requests, Request("issue", 0, number, "ok"))
                   /\ selected' = sel
                   /\ IF Len(sel) = Len(order)
                      THEN /\ issues' = sel
                           /\ stdout' = Append(stdout, Line("updating", Len(sel)))
                           /\ pc' = "loop"
                      ELSE UNCHANGED <<issues, stdout, pc>>
                   /\ UNCHANGED <<stderr, exitCode>>
    /\ UNCHANGED <<argv, token, remoteProject, args, project_id, status_field_id,
                   status_done_option, listing, idx, items, item_id, board>>

\* lines 179-182
ClosedCodexDoneIssuesStep ==
    /\ pc = "select"
    /\ args = <<>>
    /\ \/ /\ Uncaught(Request("closed_issues", 0, 0, "failed"))
          /\ UNCHANGED <<listing, issues, stdout>>
       \/ \E page \in Listings :
             /\ requests' = Append(requests, Request("closed_issues", 0, 0, "ok"))
             /\ listing' = page
             /\ issues' = ClosedCodexDoneIssues(page)
             /\ stdout' = Append(stdout, Line("updating", Len(issues')))
             /\ pc' = "loop"
             /\ UNCHANGED <<stderr, exitCode>>
    /\ UNCHANGED <<argv, token, remoteProject, args, project_id, status_field_id,
                   status_done_option, selected, idx, items, item_id, board>>

\* lines 184-189
SkipMissingNode ==
    /\ pc = "loop"
    /\ idx <= Len(issues)
    /\ Falsy(issues[idx].node_id)
    /\ SkipIssue("missing node id, skipping")
    /\ items' = <<>>
    /\ UNCHANGED <<argv, token, remoteProject, args, project_id, status_field_id,
                   status_done_option, listing, selected, issues, item_id, requests, board>>

\* lines 184-194
LookupItem ==
    /\ pc = "loop"
    /\ idx <= Len(issues)
    /\ ~Falsy(issues[idx].node_id)
    /\ \/ /\ Uncaught(Request("project_items", idx, issues[idx].number, "failed"))
          /\ UNCHANGED <<items, item_id, stdout, idx>>
       \/ \E nodes \in ItemLists :
             /\ requests' =
                   Append(requests, Request("project_items", idx, issues[idx].number, "ok"))
             /\ items' = nodes
             /\ item_id' = IssueProjectItemId(nodes, project_id)
             /\ IF Falsy(item_id')
                THEN SkipIssue("not present on project, skipping")
                ELSE /\ pc' = "update_status"
                     /\ UNCHANGED <<stdout, idx, stderr, exitCode>>
    /\ UNCHANGED <<argv, token, remoteProject, args, project_id, status_field_id,
                   status_done_option, listing, selected, issues, board>>

\* lines 196-197. _update_status drops the reply of _graphql: a reply that
\* carries "errors" with status 200 returns like any other. A request that
\* fails may have failed before or after GitHub applied it.
UpdateStatus ==
    /\ pc = "update_status"
    /\ \/ /\ Uncaught(Mutation(idx, issues[idx].number, "failed"))
          /\ \E applied \in BOOLEAN :
                board' = IF applied THEN board \cup {item_id} ELSE board
          /\ UNCHANGED <<stdout, idx>>
       \/ \E reply \in {"ok", "graphql_error"} :
             /\ requests' = Append(requests, Mutation(idx, issues[idx].number, reply))
             /\ board' = IF reply = "ok" THEN board \cup {item_id} ELSE board
             /\ stdout' = Append(stdout, Line("status updated to Done", issues[idx].number))
             /\ idx' = idx + 1
             /\ pc' = "loop"
             /\ UNCHANGED <<stderr, exitCode>>
    /\ items' = <<>>
    /\ UNCHANGED <<argv, token, args, project_id, status_field_id, status_done_option,
                   remoteProject, listing, selected, issues, item_id>>

\* the loop of line 184 is exhausted: main returns, exit status 0
Finish ==
    /\ pc = "loop"
    /\ idx > Len(issues)
    /\ pc' = "exit"
    /\ exitCode' = 0
    /\ items' = <<>>
    /\ UNCHANGED <<argv, token, remoteProject, args, project_id, status_field_id,
                   status_done_option, listing, selected, issues, idx, item_id, requests,
                   stdout, stderr, board>>

Next ==
    \/ ParseArgs
    \/ RequireTokenStep
    \/ FetchMetadataStep
    \/ FetchIssue
    \/ ClosedCodexDoneIssuesStep
    \/ SkipMissingNode
    \/ LookupItem
    \/ UpdateStatus
    \/ Finish

Spec == Init /\ [][Next]_vars

\* The run up to the return of _fetch_project_metadata, line 170.
NextMeta ==
    \/ ParseArgs
    \/ RequireTokenStep
    \/ FetchMetadataStep

SpecMeta == InitMeta /\ [][NextMeta]_vars

\* ================================================================ claims
Last(s) == s[Len(s)]
Range(s) == {s[k] : k \in DOMAIN s}
Where(op) == {i \in DOMAIN requests : requests[i].op = op}
WhereIssue(op, i) == {r \in Where(op) : requests[r].idx = i}
Sent == Len(requests') = Len(requests) + 1
Selected == pc \in {"loop", "update_status"} \/ (pc = "exit" /\ exitCode = 0)
ExplicitMode == argv.kind = "ints" /\ argv.issues # <<>>
LabelScanMode == argv.kind = "ints" /\ argv.issues = <<>>

\* ---- C1: every updateProjectV2ItemFieldValue mutation carries the project
\* id the metadata query resolved and the id of an entry of the issue's
\* project items whose project id is that same id; the item of an entry of
\* any other project is never sent.
C1_MutationTargetsResolvedProject ==
    [][(Sent /\ Last(requests').op = "mutation") =>
          LET m == Last(requests')
          IN /\ m.projectId = remoteProject.id
             /\ m.projectId = project_id
             /\ \E k \in DOMAIN items : items[k].id = m.itemId /\ items[k].project = m.projectId
             /\ \A k \in DOMAIN items : items[k].project # m.projectId => items[k].id # m.itemId
             /\ ~Falsy(m.itemId)]_vars

\* a mutation went out for the second entry of a lookup: the first entry was
\* an item of another project
C1_Witness ==
    \E i \in Where("mutation") : requests[i].itemId = ItemId(2) /\ requests[i].outcome = "ok"

FetchedNumbers == [k \in 1..Cardinality(Where("issue")) |->
                      requests[CHOOSE i \in Where("issue") :
                                  Cardinality({j \in Where("issue") : j <= i}) = k].num]

StatusFields(project) ==
    {k \in DOMAIN project.fields : project.fields[k].name = STATUS_FIELD_NAME}
FirstStatus(project) ==
    CHOOSE k \in StatusFields(project) : \A j \in StatusFields(project) : k <= j
DoneOptions(field) ==
    {o \in DOMAIN field.options : field.options[o].name = STATUS_DONE_VALUE}
Unresolvable(project) ==
    \/ ~project.present
    \/ StatusFields(project) = {}
    \/ DoneOptions(project.fields[FirstStatus(project)]) = {}
MetadataReturned == requests # <<>> /\ requests[1].outcome = "ok"

\* ---- C4: when the metadata reply holds no project, or no field named
\* Status, or a first field named Status that has no option named Done, the
\* run ends there with a non-zero exit: the metadata query is the only request
\* it ever sent, and nothing more can happen.
C4_UnresolvedMetadataEndsRun ==
    (MetadataReturned /\ Unresolvable(remoteProject)) =>
        /\ pc = "exit"
        /\ exitCode # 0
        /\ stderr # ""
        /\ Len(requests) = 1
        /\ ~ENABLED Next

C4_Witness ==
    /\ MetadataReturned
    /\ remoteProject.present
    /\ StatusFields(remoteProject) # {}
    /\ Unresolvable(remoteProject)
    /\ pc = "exit"
    /\ stderr = "Status field or Done option not found on project"

\* ---- C5: when a lookup returns no item of the target project, the run
\* prints the skip line of that issue, sends no mutation for it, and stands at
\* the next issue of the list, still running, exit status untouched.
C5_SkipContinues ==
    [][(/\ Sent
        /\ Last(requests').op = "project_items"
        /\ Last(requests').outcome = "ok"
        /\ \A k \in DOMAIN items' : items'[k].project # project_id) =>
          /\ stdout' = Append(stdout,
                 Line("not present on project, skipping", issues[idx].number))
          /\ pc' = "loop"
          /\ idx' = idx + 1
          /\ exitCode' = exitCode
          /\ exitCode = -1
          /\ stderr' = stderr
          /\ board' = board
          /\ WhereIssue("mutation", idx)' = {}]_vars

\* the first issue was skipped as not on the project, the second was updated
C5_Witness ==
    /\ Len(stdout) >= 3
    /\ stdout[2].kind = "not present on project, skipping"
    /\ stdout[3].kind = "status updated to Done"
    /\ WhereIssue("mutation", 1) = {}
    /\ WhereIssue("mutation", 2) # {}
    /\ pc = "exit"
    /\ exitCode = 0

AppliedBefore(i) ==
    {requests[j].itemId :
        j \in {m \in Where("mutation") : m < i /\ requests[m].outcome = "ok"}}

\* ---- C6: a failed request is the last request of the run: the run has ended
\* with exit status 1, nothing more can happen, and the board still holds the
\* items of the mutations that succeeded before it (and beyond them at most
\* the item of the failed request itself).
C6_FailedRequestEndsRun ==
    \A i \in DOMAIN requests :
        requests[i].outcome = "failed" =>
            /\ i = Len(requests)
            /\ pc = "exit"
            /\ exitCode = 1
            /\ AppliedBefore(i) \subseteq board
            /\ board \subseteq AppliedBefore(i) \cup {requests[i].itemId}
            /\ ~ENABLED Next

\* the request for the second issue failed after the first issue was updated
C6_Witness ==
    /\ requests # <<>>
    /\ Last(requests).outcome = "failed"
    /\ Last(requests).idx = 2
    /\ Len(issues) >= 2
    /\ board # {}

Kept == {k \in DOMAIN listing : ~listing[k].pull_request}

\* ---- C7: in label-scan mode the update set is the page without its entries
\* that carry a pull-request marker, in page order; no lookup and no
\* mutation is sent for a pull request.
C7_PullRequestsExcluded ==
    (LabelScanMode /\ \E i \in Where("closed_issues") : requests[i].outcome = "ok") =>
        /\ Len(issues) = Cardinality(Kept)
        /\ \A k \in Kept : issues[Cardinality({j \in Kept : j <= k})] = listing[k]
        /\ \A i \in Where("project_items") \cup Where("mutation") :
              /\ ~issues[requests[i].idx].pull_request
              /\ \A k \in DOMAIN listing :
                    listing[k].pull_request => listing[k].number # requests[i].num

\* the page held a pull request first and an issue second; the issue was updated
C7_Witness ==
    /\ LabelScanMode
    /\ Len(listing) = 2
    /\ listing[1].pull_request
    /\ ~listing[2].pull_request
    /\ \E i \in Where("mutation") : requests[i].num = listing[2].number

\* ---- C8, as claimed: "status updated to Done" is printed for an issue only
\* when its mutation came back without a transport error and without a
\* GraphQL error.
C8_DoneOnlyAfterCleanMutation ==
    \A k \in DOMAIN stdout :
        stdout[k].kind = "status updated to Done" =>
            \E i \in Where("mutation") :
                /\ requests[i].num = stdout[k].n
                /\ requests[i].idx = k - 1
                /\ requests[i].outcome = "ok"

PerIssue == {i \in DOMAIN requests : requests[i].idx > 0}

\* ---- C9: in a run that ends with exit status 0, the output holds one line
\* per selected issue, in list order, after the summary line; an issue
\* reported without node id had no lookup and no mutation, one reported as not
\* on the project had one lookup and no mutation, one reported as updated had
\* one lookup and then one mutation. In every run the per-issue requests go
\* out in list order, none for an issue behind the loop's position.
C9_OneOutcomePerIssue ==
    /\ \A a, b \in PerIssue : a < b => requests[a].idx <= requests[b].idx
    /\ \A a \in PerIssue : requests[a].idx <= idx /\ requests[a].idx <= Len(issues)
    /\ \A i \in DOMAIN issues :
          Cardinality(WhereIssue("project_items", i)) <= 1
              /\ Cardinality(WhereIssue("mutation", i)) <= 1
    /\ (pc = "exit" /\ exitCode = 0 /\ argv.kind = "ints") =>
          /\ Len(stdout) = Len(issues) + 1
          /\ stdout[1] = Line("updating", Len(issues))
          /\ \A i \in DOMAIN issues :
                LET line == stdout[i + 1]
                    lookups == WhereIssue("project_items", i)
                    mutations == WhereIssue("mutation", i)
                IN /\ line.n = issues[i].number
                   /\ line.kind \in {"missing node id, skipping",
                                     "not present on project, skipping",
                                     "status updated to Done"}
                   /\ line.kind = "missing node id, skipping" =>
                         (Falsy(issues[i].node_id) /\ lookups = {} /\ mutations = {})
                   /\ line.kind = "not present on project, skipping" =>
                         (Cardinality(lookups) = 1 /\ mutations = {})
                   /\ line.kind = "status updated to Done" =>
                         /\ Cardinality(lookups) = 1
                         /\ Cardinality(mutations) = 1
                         /\ \A l \in lookups : \A m \in mutations : l < m

\* a run of two issues ended with exit status 0: one skipped for its missing
\* node id, the other updated
C9_Witness ==
    /\ pc = "exit"
    /\ exitCode = 0
    /\ Len(issues) = 2
    /\ stdout[2].kind = "missing node id, skipping"
    /\ stdout[3].kind = "status updated to Done"

\* ---- C10: when the metadata resolver returns, the field id is that of the
\* first field named Status, the option id that of an option named Done of
\* that field and of no other field, the project id that of the reply, and
\* none of the three is empty.
C10_ResolverReturnsFirstStatusDone ==
    pc = "select" =>
        /\ remoteProject.present
        /\ StatusFields(remoteProject) # {}
        /\ LET f == FirstStatus(remoteProject)
               field == remoteProject.fields[f]
           IN /\ status_field_id = field.id
              /\ \E o \in DoneOptions(field) : field.options[o].id = status_done_option
              /\ \A g \in DOMAIN remoteProject.fields :
                    g # f => \A o \in DOMAIN remoteProject.fields[g].options :
                                remoteProject.fields[g].options[o].id # status_done_option
        /\ project_id = remoteProject.id
        /\ ~Falsy(project_id) /\ ~Falsy(status_field_id) /\ ~Falsy(status_done_option)

\* the resolver returned for a board with two fields named Status, each with
\* an option named Done
C10_Witness ==
    /\ pc = "select"
    /\ StatusFields(remoteProject) = {1, 2}
    /\ DoneOptions(remoteProject.fields[1]) # {}
    /\ DoneOptions(remoteProject.fields[2]) # {}
    /\ status_field_id = FieldId(1)

====
